---- MODULE Spec2Model ----
(***************************************************************************)
(* Model of the self-healing ransomware detector: the watchdog dispatcher  *)
(* (monitor.py FileMonitor), the recovery orchestration it schedules on a  *)
(* threading.Timer, the backup store (recovery.py FileRecovery) and the    *)
(* alert sink (notification.py NotificationSystem).                        *)
(*                                                                         *)
(* Threads: one watchdog thread runs the on_* handlers, one after the      *)
(* other, in the order the observer delivers the events (queue); every     *)
(* arming starts one Timer thread that runs recover_and_reset. External    *)
(* processes (the user, the ransomware, simulate.py) change the live tree. *)
(* Time is a clock of whole seconds, now.                                  *)
(***************************************************************************)
EXTENDS Integers, Sequences, FiniteSets, TLC

\* ------------------------------------------------------------------ bounds
\* External file operations in one run.
MaxEvents == 4
\* The clock stops at MaxTime; it advances TickStep seconds at a time.
MaxTime == 10
TickStep == 10
\* Threads that may run restore_all_files at the same time.
MaxThreads == 2

\* Calls of the store and writes of the other process in one run of SpecS.
MaxCalls == 4
\* The days the clock of SpecS covers.
MaxDays == 2

\* ------------------------------------------------------ program constants
RECOVERY_TIMEOUT == 10
FILE_OP_FREQUENCY_THRESHOLD == 10
EXTENSION_CHANGE_THRESHOLD == 3
\* ENTROPY_THRESHOLD = 0.8 and DETECTION_THRESHOLD = 0.6, in hundredths.
ENTROPY_THRESHOLD == 80
DETECTION_THRESHOLD == 60
FREQUENCY_WEIGHT == 30
EXTENSION_WEIGHT == 50
ENTROPY_WEIGHT == 20
\* deque(maxlen=200)
recent_operations_maxlen == 200
extension_change_window == 30
pattern_window == 10
\* the "last 10 seconds" of _check_for_suspicious_activity
op_window == 10
\* op_frequency = len(recent_ops) / 10.0
op_frequency_divisor == 10
\* timedelta(seconds=60), timedelta(hours=24)
alert_cooldown == 60
fingerprint_cleanup_interval == 86400

\* ----------------------------------------------------------------- strings
\* Paths relative to MONITORING_DIR (= relative to BACKUP_DIR in the shadow
\* tree). A path is named by a string; Chars gives its characters, on which
\* the string functions of the code work.
AllPaths == {"a.txt", "a.txt.encrypted"}

Chars(p) ==
    CASE p = "a.txt" -> <<"a", ".", "t", "x", "t">>
      [] p = "a.txt.encrypted" ->
            <<"a", ".", "t", "x", "t", ".", "e", "n", "c", "r", "y", "p", "t", "e", "d">>

\* s[i..j] (1-based, inclusive); empty when i > j
Slice(s, i, j) == [k \in 1..(IF j >= i THEN j - i + 1 ELSE 0) |-> s[i + k - 1]]

\* str.startswith
StartsWith(s, pre) == Len(pre) <= Len(s) /\ Slice(s, 1, Len(pre)) = pre

\* `sub in s`
Contains(s, sub) ==
    \E i \in 1..(Len(s) + 1) : i + Len(sub) - 1 <= Len(s) /\ Slice(s, i, i + Len(sub) - 1) = sub

\* os.path.splitext on a path without directories: the extension starts at
\* the last dot, unless only dots precede it. <<root, ext>>.
splitext(s) ==
    LET dots == {i \in 1..Len(s) : s[i] = "."}
        last == IF dots = {} THEN 0 ELSE CHOOSE i \in dots : \A j \in dots : j <= i
        leading == \A k \in 1..(last - 1) : s[k] = "."
    IN IF last = 0 \/ leading THEN <<s, <<>> >>
       ELSE <<Slice(s, 1, last - 1), Slice(s, last, Len(s))>>

ExtOf(p) == splitext(Chars(p))[2]

DotEncrypted == <<".", "e", "n", "c", "r", "y", "p", "t", "e", "d">>
DotLocked == <<".", "l", "o", "c", "k", "e", "d">>
DotCrypt == <<".", "c", "r", "y", "p", "t">>

\* str.lower on the characters the paths use
LowerChar(c) ==
    CASE c = "A" -> "a" [] c = "B" -> "b" [] c = "C" -> "c" [] c = "D" -> "d"
      [] c = "E" -> "e" [] c = "N" -> "n" [] c = "P" -> "p" [] c = "R" -> "r"
      [] c = "T" -> "t" [] c = "X" -> "x" [] c = "Y" -> "y" [] OTHER -> c
Lower(s) == [i \in 1..Len(s) |-> LowerChar(s[i])]

\* str.replace(sub, '') for a sub that occurs at most once in s
replace_with_empty(s, sub) ==
    IF ~Contains(s, sub) THEN s
    ELSE LET i == CHOOSE k \in 1..Len(s) :
                    /\ k + Len(sub) - 1 <= Len(s)
                    /\ Slice(s, k, k + Len(sub) - 1) = sub
                    /\ \A m \in 1..(k - 1) : ~(m + Len(sub) - 1 <= Len(s) /\ Slice(s, m, m + Len(sub) - 1) = sub)
         IN Slice(s, 1, i - 1) \o Slice(s, i + Len(sub), Len(s))

\* -------------------------------------------------------------- file trees
NoFile == "absent"
\* File contents, by what the detector reads of them: the bytes (compared by
\* equality) and their normalised Shannon entropy in hundredths.
Contents == {"text", "cipher"}
\* a compressed file: high entropy, below that of ciphertext
Packed == "packed"
calculate_file_entropy(c) ==
    IF c = "cipher" THEN 99 ELSE IF c = Packed THEN 90 ELSE 45

\* dict helpers
Restrict(f, S) == [x \in S |-> f[x]]
Put(f, k, v) == [x \in (DOMAIN f) \cup {k} |-> IF x = k THEN v ELSE f[x]]
EmptyMap == [x \in {} |-> 0]

\* ------------------------------------------------------------- alert sink
\* An alert message, by the parts the sink reads: the text before the first
\* colon (head), the variable middle (reason: numbers) and the last words
\* (tail). Only the detection message is longer than 70 characters.
DetectionHead == "POTENTIAL RANSOMWARE ACTIVITY DETECTED!"
DetectionMsg(n, ext, ml) ==
    [head |-> DetectionHead, reason |-> <<n, ext>>,
     tail |-> IF ml THEN "ML detection: Positive" ELSE "ML detection: Negative"]
InitiatedMsg(t) == [head |-> "RECOVERY PROCESS INITIATED", reason |-> <<t>>, tail |-> ""]
CompleteAllMsg ==
    [head |-> "RECOVERY COMPLETE", reason |-> <<>>,
     tail |-> "All files restored to their original state."]
CompleteCountsMsg(r, f) ==
    [head |-> "RECOVERY COMPLETE", reason |-> <<r, f>>, tail |-> "Recovery completed"]
FailedMsg == [head |-> "RECOVERY FAILED", reason |-> <<>>, tail |-> "error"]

get_message_type(m) ==
    IF m.head = DetectionHead THEN "RANSOMWARE_DETECTION"
    ELSE IF m.head = "RECOVERY COMPLETE" THEN "RECOVERY_COMPLETE"
    ELSE m.head

\* first 50 + last 20 characters of a message longer than 70, else the message:
\* the first 50 characters of a detection message are its head and the start of
\* "Reason: File operations", the last 20 the end of its ML verdict.
generate_message_fingerprint_whole(m) == m
generate_message_fingerprint(m) ==
    IF m.head = DetectionHead THEN [m EXCEPT !.reason = <<>>] ELSE m

\* ---------------------------------------------- the detection alert as text
\* The alert of line 344, character by character: the head, a line feed,
\* "Reason: " and the reason of lines 232-233 with its formatted numbers.
AlertText ==
    [head |->
        <<"P", "O", "T", "E", "N", "T", "I", "A", "L", " ", "R", "A", "N", "S", "O", "M", "W",
          "A", "R", "E", " ", "A", "C", "T", "I", "V", "I", "T", "Y", " ", "D", "E", "T", "E",
          "C", "T", "E", "D", "!", "\n", "R", "e", "a", "s", "o", "n", ":", " ">>,
     file_operations |->
        <<"F", "i", "l", "e", " ", "o", "p", "e", "r", "a", "t", "i", "o", "n", "s", ":", " ">>,
     ext_changes |->
        <<"/", "s", ",", " ", "E", "x", "t", " ", "c", "h", "a", "n", "g", "e", "s", ":", " ">>,
     entropy |->
        <<",", " ", "E", "n", "t", "r", "o", "p", "y", ":", " ">>,
     score |->
        <<",", " ", "S", "c", "o", "r", "e", ":", " ">>,
     ml_detection |->
        <<",", " ", "M", "L", " ", "d", "e", "t", "e", "c", "t", "i", "o", "n", ":", " ">>,
     positive |->
        <<"P", "o", "s", "i", "t", "i", "v", "e">>,
     negative |->
        <<"N", "e", "g", "a", "t", "i", "v", "e">>]

\* formatted numbers of one to six characters
NumberTexts ==
    {<<"3">>, <<"0", ".", "3">>, <<"1", "2", ".", "0">>, <<"1", "0", "0", ".", "0", "0">>}

\* alert_message of line 344 for the formatted op_frequency, extension_changes,
\* avg_entropy and score and the model's verdict
alert_text(frequency, changes, entropy, points, ml) ==
    AlertText.head \o AlertText.file_operations \o frequency \o AlertText.ext_changes
        \o changes \o AlertText.entropy \o entropy \o AlertText.score \o points
        \o AlertText.ml_detection \o (IF ml THEN AlertText.positive ELSE AlertText.negative)

\* NotificationSystem._generate_message_fingerprint on the text
fingerprint_of_text(message) ==
    IF Len(message) > 70
    THEN SubSeq(message, 1, 50) \o SubSeq(message, Len(message) - 19, Len(message))
    ELSE message

NewSink(t) ==
    [last_alert_time |-> EmptyMap, message_fingerprints |-> {}, last_cleanup_time |-> t]

\* line 107: the fingerprint set is due for clearing
cleanup_due_never(elapsed) == FALSE
cleanup_due(elapsed) == elapsed > fingerprint_cleanup_interval

\* line 122: the kind was last emitted less than the cooldown ago
in_cooldown_never(elapsed) == FALSE
in_cooldown(elapsed) == elapsed < alert_cooldown

\* lines 130-133: the fingerprint is added and the kind's time is stamped
\* once both checks have been passed
stamp_kind_always(accepted) == TRUE
stamp_kind(accepted) == accepted

\* NotificationSystem.send_alert on sink state s at time t:
\* [accepted |-> its return value, sink |-> the sink afterwards]
send_alert(s, m, t) ==
    LET cleanup == cleanup_due(t - s.last_cleanup_time)
        fps == IF cleanup THEN {} ELSE s.message_fingerprints
        lct == IF cleanup THEN t ELSE s.last_cleanup_time
        message_type == get_message_type(m)
        message_fingerprint == generate_message_fingerprint(m)
        duplicate == message_fingerprint \in fps
        cooling == /\ message_type \in DOMAIN s.last_alert_time
                   /\ in_cooldown(t - s.last_alert_time[message_type])
        accepted == ~duplicate /\ ~cooling
    IN [accepted |-> accepted,
        sink |-> [last_alert_time |-> IF stamp_kind(accepted)
                                      THEN Put(s.last_alert_time, message_type, t)
                                      ELSE s.last_alert_time,
                  message_fingerprints |-> IF accepted THEN fps \cup {message_fingerprint}
                                           ELSE fps,
                  last_cleanup_time |-> lct]]

\* One record of alerts.log: "[timestamp] ALERT: message". run tags the record
\* with the arming it belongs to (0: none), by with the code that sent it.
LogRecord(m, t, by, run) == [msg |-> m, at |-> t, by |-> by, run |-> run]

\* ---------------------------------------------------------------- scorer
RECURSIVE SeqSum(_)
SeqSum(s) ==
    IF Len(s) = 0 THEN 0
    ELSE IF Len(s) = 1 THEN s[1]
    ELSE LET h == Len(s) \div 2
         IN SeqSum(SubSeq(s, 1, h)) + SeqSum(SubSeq(s, h + 1, Len(s)))

Max(a, b) == IF a >= b THEN a ELSE b

\* score > config.DETECTION_THRESHOLD, for n operations in the last 10 s
\* (op_frequency = n / op_frequency_divisor), ext extension changes and the entropies (in
\* hundredths) of k modified files summing to S (avg_entropy = S / 100k, 0 when
\* k = 0). The inequality of lines 208-214, multiplied by the denominators.
is_suspicious_threshold(n, ext, S, k) ==
    LET kk == Max(k, 1)
        Te == Max(1, EXTENSION_CHANGE_THRESHOLD)
    IN    n * FREQUENCY_WEIGHT * Te * kk * ENTROPY_THRESHOLD
        + ext * EXTENSION_WEIGHT * op_frequency_divisor * FILE_OP_FREQUENCY_THRESHOLD * kk
              * ENTROPY_THRESHOLD
        + S * ENTROPY_WEIGHT * op_frequency_divisor * FILE_OP_FREQUENCY_THRESHOLD * Te
        > DETECTION_THRESHOLD * op_frequency_divisor * FILE_OP_FREQUENCY_THRESHOLD * Te * kk
              * ENTROPY_THRESHOLD

\* RansomwareDetector.detect's rules on [file_ops, ext_changes, entropy]
rule_based_detection(n, ext, S, k) ==
    LET kk == Max(k, 1)
        file_ops_ge_12 == n >= 12 * op_frequency_divisor
    IN \/ ext >= 5
       \/ (file_ops_ge_12 /\ ext >= 3)
       \/ (file_ops_ge_12 /\ S >= 80 * kk)
       \/ (ext >= 3 /\ S >= 85 * kk)

\* What the IsolationForest gives for a feature vector: predict = -1, predict
\* = 1, or nothing (no model loaded, or decision_function raises).
Predictions == {"anomaly", "normal", "unavailable"}

\* RansomwareDetector.detect, given the forest's prediction
detect(prediction, n, ext, S, k) ==
    /\ prediction # "unavailable"
    /\ (prediction = "anomaly" \/ rule_based_detection(n, ext, S, k))

\* the final decision of _check_for_suspicious_activity
final_decision(require_ml, threshold, ml) ==
    IF require_ml THEN threshold /\ ml ELSE threshold \/ ml

\* lines 149-155: the pairs (deleted path, created path) of the pruned tables
\* that _check_extension_patterns counts
matched_pairs(rc, rd) ==
    {pr \in (DOMAIN rd) \X (DOMAIN rc) :
        /\ StartsWith(Chars(pr[2]), splitext(Chars(pr[1]))[1])
        /\ pr[2] # pr[1]}

\* FileMonitor._check_extension_patterns at time t
check_extension_patterns(t, ext, ler, rc, rd) ==
    LET expired == t - ler > extension_change_window
        rc1 == Restrict(rc, {p \in DOMAIN rc : t - rc[p] <= pattern_window})
        rd1 == Restrict(rd, {p \in DOMAIN rd : t - rd[p] <= pattern_window})
        patterns_detected == Cardinality(matched_pairs(rc1, rd1))
    IN [ext |-> (IF expired THEN 0 ELSE ext) + patterns_detected,
        ler |-> IF expired THEN t ELSE ler,
        rc |-> rc1, rd |-> rd1]

\* line 170: detection is skipped while the recovery mode is set
skip_detection_in_recovery_never(mode) == FALSE
skip_detection_in_recovery(mode) == mode

\* line 182: the operations of the last 10 seconds needed for a verdict
enough_recent_operations_always(n) == TRUE
enough_recent_operations(n) == n >= 3

\* FileMonitor._check_for_suspicious_activity at time t on the handler's state;
\* fs is the live tree, prediction the forest's answer should detect be called.
check_for_suspicious_activity(t, ops, ext, ler, rc, rd, mode, fs, require_ml, prediction) ==
    LET quiet == [is_suspicious |-> FALSE, ml |-> FALSE, n |-> 0,
                  ext |-> ext, ler |-> ler, rc |-> rc, rd |-> rd,
                  scored |-> FALSE, S |-> 0, k |-> 0]
    IN IF Len(ops) < 3 THEN quiet
       ELSE IF skip_detection_in_recovery(mode) THEN quiet
       ELSE LET pat == check_extension_patterns(t, ext, ler, rc, rd)
                InWindow(op) == t - op.ts < op_window
                recent_ops == SelectSeq(ops, InWindow)
                ModifiedExisting(op) == op.op = "modified" /\ fs[op.path] # NoFile
                mods == SelectSeq(recent_ops, ModifiedExisting)
                S == SeqSum([i \in 1..Len(mods) |-> calculate_file_entropy(fs[mods[i].path])])
                n == Len(recent_ops)
                th == is_suspicious_threshold(n, pat.ext, S, Len(mods))
                ml == detect(prediction, n, pat.ext, S, Len(mods))
            IN IF ~enough_recent_operations(n)
               THEN [quiet EXCEPT !.ext = pat.ext, !.ler = pat.ler,
                                  !.rc = pat.rc, !.rd = pat.rd]
               ELSE [is_suspicious |-> final_decision(require_ml, th, ml), ml |-> ml,
                     n |-> n, ext |-> pat.ext, ler |-> pat.ler, rc |-> pat.rc, rd |-> pat.rd,
                     scored |-> TRUE, S |-> S, k |-> Len(mods)]

VARIABLES
    now,                    \* time.time() / datetime.now(), in seconds
    live,                   \* MONITORING_DIR: path -> content or NoFile
    shadow,                 \* BACKUP_DIR: path -> content or NoFile
    queue,                  \* events the observer has not delivered yet
    recent_operations,      \* FileMonitor.recent_operations
    file_extensions,        \* FileMonitor.file_extensions
    extension_changes,      \* FileMonitor.extension_changes
    last_extension_reset,   \* FileMonitor.last_extension_reset
    recent_creates,         \* FileMonitor.recent_creates
    recent_deletes,         \* FileMonitor.recent_deletes
    recovery_mode,          \* FileMonitor.recovery_mode
    recovery_in_progress,   \* FileRecovery.recovery_in_progress
    thr,                    \* the threads that run recover_and_reset / restore_all_files
    notification,           \* FileMonitor.notification: the monitor's NotificationSystem
    alerts_log,             \* LOG_DIR/alerts.log: the records appended so far
    AUTO_RECOVERY,          \* config.AUTO_RECOVERY
    REQUIRE_ML_CONFIRMATION,\* config.REQUIRE_ML_CONFIRMATION
    hist,                   \* history: what has happened, for stating the properties
    catalog,                \* LOG_DIR/file_checksums.db: path -> row of file_checksums
    api,                    \* the calls made of file_utils and FileRecovery, and their results
    eval                    \* the last direct call of _check_for_suspicious_activity

vars == <<now, live, shadow, queue, recent_operations, file_extensions,
          extension_changes, last_extension_reset, recent_creates, recent_deletes,
          recovery_mode, recovery_in_progress, thr, notification, alerts_log,
          AUTO_RECOVERY, REQUIRE_ML_CONFIRMATION, hist, catalog, api, eval>>

monitorVars == <<recent_operations, file_extensions, extension_changes,
                 last_extension_reset, recent_creates, recent_deletes>>
configVars == <<AUTO_RECOVERY, REQUIRE_ML_CONFIRMATION>>
\* Nothing in monitor.py or recovery.py imports file_utils: the handlers and
\* the timer thread leave the checksum catalog as it is.
\* eval is written by direct calls of the scorer only.
storeVars == <<catalog, api, eval>>

Threads == 1..MaxThreads

\* ------------------------------------------------------------------ state
IdleThread ==
    [pc |-> "idle", caller |-> "none", fireAt |-> 0, run |-> 0,
     todo |-> {}, snap |-> {}, done |-> {}, restored_count |-> 0, failed_count |-> 0,
     walked |-> FALSE, ret |-> <<>>]

\* no call of file_utils or FileRecovery's backup_file / restore_file yet
NoCall == [op |-> "none", path |-> "", pc |-> "done", ret |-> FALSE, arg |-> 0,
           before |-> EmptyMap, seen |-> {}, restored |-> {}, skipped |-> {}]
NoCalls == [last |-> NoCall, prev |-> [op |-> "none", path |-> "", ret |-> FALSE, seen |-> {}],
            calls |-> 0, backed |-> EmptyMap]

\* no direct call of the scorer yet
NoEval == [called |-> FALSE]

NoHistory == [events |-> 0, arms |-> 0, restore_calls |-> 0, verdicts |-> 0, skipped |-> 0,
              ext_at_idle |-> 0, sent |-> <<>>, pairs |-> {}, counted |-> {}]

\* FileMonitor.__init__: the tree holds a.txt; _scan_initial_directory records
\* its extension and _create_initial_backups copies it to the shadow tree.
InitialTree == [p \in AllPaths |-> IF p = "a.txt" THEN "text" ELSE NoFile]

Init ==
    /\ now = 0
    /\ live = InitialTree
    /\ shadow = InitialTree
    /\ queue = <<>>
    /\ recent_operations = <<>>
    /\ file_extensions = [p \in {q \in AllPaths : InitialTree[q] # NoFile} |-> ExtOf(p)]
    /\ extension_changes = 0
    /\ last_extension_reset = 0
    /\ recent_creates = EmptyMap
    /\ recent_deletes = EmptyMap
    /\ recovery_mode = FALSE
    /\ recovery_in_progress = FALSE
    /\ thr = [t \in Threads |-> IdleThread]
    /\ notification = NewSink(0)
    /\ alerts_log = <<>>
    /\ AUTO_RECOVERY \in BOOLEAN
    /\ REQUIRE_ML_CONFIRMATION \in BOOLEAN
    /\ hist = NoHistory
    /\ catalog = EmptyMap
    /\ api = NoCalls
    /\ eval = NoEval

\* ------------------------------------------------- the watched file system
\* What the observer queues for one change of the live tree.
FsEvent(kind, src, dest, origin) == [kind |-> kind, src |-> src, dest |-> dest, origin |-> origin]

ExternalWrite(p, c) ==
    /\ hist.events < MaxEvents
    /\ live' = [live EXCEPT ![p] = c]
    /\ queue' = Append(queue, FsEvent(IF live[p] = NoFile THEN "created" ELSE "modified",
                                      p, p, "external"))
    /\ hist' = [hist EXCEPT !.events = @ + 1]
    /\ UNCHANGED <<now, shadow, monitorVars, recovery_mode, recovery_in_progress, thr,
                   notification, alerts_log, configVars, storeVars>>

ExternalDelete(p) ==
    /\ hist.events < MaxEvents
    /\ live[p] # NoFile
    /\ live' = [live EXCEPT ![p] = NoFile]
    /\ queue' = Append(queue, FsEvent("deleted", p, p, "external"))
    /\ hist' = [hist EXCEPT !.events = @ + 1]
    /\ UNCHANGED <<now, shadow, monitorVars, recovery_mode, recovery_in_progress, thr,
                   notification, alerts_log, configVars, storeVars>>

ExternalRename(p, q) ==
    /\ hist.events < MaxEvents
    /\ live[p] # NoFile
    /\ p # q
    /\ live' = [live EXCEPT ![q] = live[p], ![p] = NoFile]
    /\ queue' = Append(queue, FsEvent("renamed", p, q, "external"))
    /\ hist' = [hist EXCEPT !.events = @ + 1]
    /\ UNCHANGED <<now, shadow, monitorVars, recovery_mode, recovery_in_progress, thr,
                   notification, alerts_log, configVars, storeVars>>

Tick ==
    /\ now + TickStep <= MaxTime
    /\ now' = now + TickStep
    /\ UNCHANGED <<live, shadow, queue, monitorVars, recovery_mode, recovery_in_progress,
                   thr, notification, alerts_log, configVars, storeVars, hist>>

\* ------------------------------------------------------------- dispatcher
\* deque(maxlen=200).append
AppendOp(ops, op) ==
    IF Len(ops) >= recent_operations_maxlen THEN Append(Tail(ops), op) ELSE Append(ops, op)

Operation(t, op, path, dest) == [ts |-> t, op |-> op, path |-> path, dest |-> dest]

\* FileRecovery.backup_file: copy2(live, shadow); a missing source raises
\* inside the try and leaves the shadow tree as it was.
backup_file_keeps_existing(sh, fs, p) ==
    IF fs[p] # NoFile /\ sh[p] = NoFile THEN [sh EXCEPT ![p] = fs[p]] ELSE sh
backup_file(sh, fs, p) == IF fs[p] # NoFile THEN [sh EXCEPT ![p] = fs[p]] ELSE sh

\* line 352: `if config.AUTO_RECOVERY and not self.recovery_mode`
should_arm_whatever_config(auto, mode) == ~mode
should_arm(auto, mode) == auto /\ ~mode

\* set_recovery_mode(active): the flag afterwards
set_recovery_mode_forgotten(mode, active) == mode
set_recovery_mode(mode, active) == active

\* lines 376-378: the counter after a recovery has been scheduled
reset_after_scheduling_missing(ext) == ext
reset_after_scheduling(ext) == 0

\* line 349: the value send_alert returns is dropped; what it lets through
send_alert_result_required(accepted) == accepted
send_alert_result_dropped(accepted) == TRUE

\* FileMonitor._handle_potential_threat, run at the end of every handler on
\* the handler's values of the operations, counter and create/delete records.
handle_potential_threat(ops, ext, rc, rd, e, prediction) ==
    LET chk == check_for_suspicious_activity(now, ops, ext, last_extension_reset, rc, rd,
                                             recovery_mode, live, REQUIRE_ML_CONFIRMATION, prediction)
        alert_message == DetectionMsg(chk.n, chk.ext, chk.ml)
        snd == send_alert(notification, alert_message, now)
        free == {t \in Threads : thr[t].pc = "idle"}
        timer == CHOOSE t \in free : \A u \in free : t <= u
        \* the pairs counted, if _check_extension_patterns has been called
        \* (lines 166-175), with the times of their records
        pairs == IF Len(ops) >= 3 /\ ~skip_detection_in_recovery(recovery_mode)
                 THEN {[deleted |-> pr[1], deleted_at |-> recent_deletes'[pr[1]],
                        created |-> pr[2], created_at |-> recent_creates'[pr[2]]] :
                           pr \in matched_pairs(recent_creates', recent_deletes')}
                 ELSE {}
    IN \E arm \in {/\ chk.is_suspicious
                    /\ send_alert_result_dropped(snd.accepted)
                    /\ should_arm(AUTO_RECOVERY, recovery_mode)} :
       /\ arm => free # {}
       /\ recent_creates' = chk.rc
       /\ recent_deletes' = chk.rd
       /\ extension_changes' = IF arm THEN reset_after_scheduling(chk.ext) ELSE chk.ext
       /\ last_extension_reset' = IF arm THEN now ELSE chk.ler
       /\ recovery_mode' = IF arm THEN set_recovery_mode(recovery_mode, TRUE) ELSE recovery_mode
       /\ thr' = IF arm
                 THEN [thr EXCEPT ![timer] = [IdleThread EXCEPT !.pc = "pending",
                                                                !.caller = "timer",
                                                                !.fireAt = now + RECOVERY_TIMEOUT,
                                                                !.run = hist.arms + 1]]
                 ELSE thr
       /\ notification' = IF chk.is_suspicious THEN snd.sink ELSE notification
       /\ alerts_log' = IF chk.is_suspicious /\ snd.accepted
                        THEN Append(alerts_log, LogRecord(alert_message, now, "dispatcher", 0))
                        ELSE alerts_log
       /\ hist' = [hist EXCEPT
                     !.verdicts = IF chk.is_suspicious THEN @ + 1 ELSE @,
                     !.arms = IF arm THEN @ + 1 ELSE @,
                     !.pairs = pairs,
                     !.counted = @ \cup pairs,
                     !.skipped = IF Len(ops) >= 3 /\ skip_detection_in_recovery(recovery_mode)
                                 THEN @ + 1 ELSE @,
                     !.sent = IF chk.is_suspicious
                              THEN Append(@, [msg |-> alert_message, accepted |-> snd.accepted,
                                              by |-> "dispatcher", run |-> 0,
                                              origin |-> e.origin, mode |-> recovery_mode])
                              ELSE @]

on_created(prediction) ==
    /\ queue # <<>>
    /\ Head(queue).kind = "created"
    /\ LET e == Head(queue)
           file_path == e.src
           ops == AppendOp(recent_operations, Operation(now, "created", file_path, ""))
           rc == Put(recent_creates, file_path, now)
           possible_original == replace_with_empty(Chars(file_path), DotEncrypted)
           ext == IF /\ Contains(Lower(Chars(file_path)), DotEncrypted)
                     /\ \E d \in DOMAIN recent_deletes : Chars(d) = possible_original
                  THEN extension_changes + 1 ELSE extension_changes
       IN /\ queue' = Tail(queue)
          /\ recent_operations' = ops
          /\ file_extensions' = Put(file_extensions, file_path, ExtOf(file_path))
          /\ shadow' = backup_file(shadow, live, file_path)
          /\ handle_potential_threat(ops, ext, rc, recent_deletes, e, prediction)
    /\ UNCHANGED <<now, live, recovery_in_progress, configVars, storeVars>>

on_modified(prediction) ==
    /\ queue # <<>>
    /\ Head(queue).kind = "modified"
    /\ LET e == Head(queue)
           file_path == e.src
           ops == AppendOp(recent_operations, Operation(now, "modified", file_path, ""))
           ext == IF /\ file_path \in DOMAIN file_extensions
                     /\ ExtOf(file_path) # file_extensions[file_path]
                  THEN extension_changes + 1 ELSE extension_changes
       IN /\ queue' = Tail(queue)
          /\ recent_operations' = ops
          /\ file_extensions' = Put(file_extensions, file_path, ExtOf(file_path))
          /\ handle_potential_threat(ops, ext, recent_creates, recent_deletes, e, prediction)
    /\ UNCHANGED <<now, live, shadow, recovery_in_progress, configVars, storeVars>>

\* lines 290-304: on_deleted makes no call of FileRecovery or file_utils; the
\* shadow tree after the handler
backup_after_delete_removed(sh, p) == [sh EXCEPT ![p] = NoFile]
backup_after_delete(sh, p) == sh

on_deleted(prediction) ==
    /\ queue # <<>>
    /\ Head(queue).kind = "deleted"
    /\ LET e == Head(queue)
           file_path == e.src
           ops == AppendOp(recent_operations, Operation(now, "deleted", file_path, ""))
           rd == Put(recent_deletes, file_path, now)
       IN /\ queue' = Tail(queue)
          /\ recent_operations' = ops
          /\ shadow' = backup_after_delete(shadow, file_path)
          /\ handle_potential_threat(ops, extension_changes, recent_creates, rd, e, prediction)
    /\ UNCHANGED <<now, live, file_extensions, recovery_in_progress, configVars, storeVars>>

\* the rename rule of on_moved: what a rename adds to extension_changes
rename_increment(src_ext, dest_ext) ==
    IF src_ext = dest_ext THEN 0
    ELSE IF \/ Contains(Lower(dest_ext), DotEncrypted)
            \/ Contains(Lower(dest_ext), DotLocked)
            \/ Contains(Lower(dest_ext), DotCrypt)
         THEN 2 ELSE 1

on_moved(prediction) ==
    /\ queue # <<>>
    /\ Head(queue).kind = "renamed"
    /\ LET e == Head(queue)
           src_path == e.src
           dest_path == e.dest
           ops == AppendOp(recent_operations, Operation(now, "renamed", src_path, dest_path))
           ext == extension_changes + rename_increment(ExtOf(src_path), ExtOf(dest_path))
           fe == Restrict(file_extensions, (DOMAIN file_extensions) \ {src_path})
       IN /\ queue' = Tail(queue)
          /\ recent_operations' = ops
          /\ file_extensions' = Put(fe, dest_path, ExtOf(dest_path))
          /\ handle_potential_threat(ops, ext, recent_creates, recent_deletes, e, prediction)
    /\ UNCHANGED <<now, live, shadow, recovery_in_progress, configVars, storeVars>>

\* ------------------------------------------- recover_and_reset (the timer)
Submission(m, accepted, by, run) ==
    [msg |-> m, accepted |-> accepted, by |-> by, run |-> run,
     origin |-> "none", mode |-> recovery_mode]

\* A send_alert on the monitor's sink from the timer thread of arming `run`.
MonitorSend(m, run) ==
    LET snd == send_alert(notification, m, now)
    IN /\ notification' = snd.sink
       /\ alerts_log' = IF snd.accepted
                        THEN Append(alerts_log, LogRecord(m, now, "recover_and_reset", run))
                        ELSE alerts_log
       /\ hist' = [hist EXCEPT !.sent = Append(@, Submission(m, snd.accepted,
                                                             "recover_and_reset", run))]

\* line 359: what recover_and_reset sends before it calls restore_all_files
alert_before_restore_none(t) == <<>>
alert_before_restore(t) == <<InitiatedMsg(t)>>

\* threading.Timer(RECOVERY_TIMEOUT, recover_and_reset) fires: the callback
\* sends RECOVERY PROCESS INITIATED and calls restore_all_files.
TimerFire(t) ==
    /\ thr[t].pc = "pending"
    /\ now >= thr[t].fireAt
    /\ thr' = [thr EXCEPT ![t].pc = "ra_check"]
    /\ IF alert_before_restore(now) # <<>>
       THEN MonitorSend(alert_before_restore(now)[1], thr[t].run)
       ELSE UNCHANGED <<notification, alerts_log, hist>>
    /\ UNCHANGED <<now, live, shadow, queue, monitorVars, recovery_mode,
                   recovery_in_progress, configVars, storeVars>>

\* where restore_all_files returns to
ReturnPc(caller) == IF caller = "timer" THEN "rr_complete" ELSE "returned"
\* where an exception of restore_all_files lands: the except clause of
\* recover_and_reset, which the finally clause follows
ExceptPc_unhandled(caller) == IF caller = "timer" THEN "idle" ELSE "raised"
ExceptPc(caller) == IF caller = "timer" THEN "rr_failed" ELSE "raised"

\* lines 59-61: the re-entrancy check of restore_all_files
RaCheck(t) ==
    /\ thr[t].pc = "ra_check"
    /\ thr' = IF recovery_in_progress
              THEN [thr EXCEPT ![t].pc = ReturnPc(thr[t].caller), ![t].ret = <<0, 0>>]
              ELSE [thr EXCEPT ![t].pc = "ra_set"]
    /\ hist' = [hist EXCEPT !.restore_calls = @ + 1]
    /\ UNCHANGED <<now, live, shadow, queue, monitorVars, recovery_mode,
                   recovery_in_progress, notification, alerts_log, configVars, storeVars>>

\* line 64, and os.walk listing the shadow directory
RaSet(t) ==
    /\ thr[t].pc = "ra_set"
    /\ recovery_in_progress' = TRUE
    /\ thr' = [thr EXCEPT ![t].pc = "ra_walk", ![t].walked = TRUE,
                          ![t].todo = {p \in AllPaths : shadow[p] # NoFile},
                          ![t].snap = {p \in AllPaths : shadow[p] # NoFile}]
    /\ UNCHANGED <<now, live, shadow, queue, monitorVars, recovery_mode,
                   notification, alerts_log, configVars, storeVars, hist>>

\* the files the walk still visits after restore_file(f) returned ok
remaining_after_abort_on_failure(todo, f, ok) == IF ok THEN todo \ {f} ELSE {}
remaining_after(todo, f, ok) == todo \ {f}

\* lines 73-81: one iteration of the walk. restore_file(f) returns False when
\* the backup file is missing or the copy raises (io_ok = FALSE).
RaWalk(t) ==
    /\ thr[t].pc = "ra_walk"
    /\ \E f \in thr[t].todo, io_ok \in BOOLEAN :
          LET ok == shadow[f] # NoFile /\ io_ok
          IN /\ live' = IF ok THEN [live EXCEPT ![f] = shadow[f]] ELSE live
             /\ queue' = IF ok
                         THEN Append(queue, FsEvent(IF live[f] = NoFile THEN "created"
                                                    ELSE "modified", f, f, "restore"))
                         ELSE queue
             /\ thr' = [thr EXCEPT ![t].todo = remaining_after(thr[t].todo, f, ok),
                                   ![t].done = @ \cup {f},
                                   ![t].restored_count = IF ok THEN @ + 1 ELSE @,
                                   ![t].failed_count = IF ok THEN @ ELSE @ + 1]
    /\ UNCHANGED <<now, shadow, monitorVars, recovery_mode, recovery_in_progress,
                   notification, alerts_log, configVars, storeVars, hist>>

\* lines 83-95: the walk is over; a NotificationSystem of its own sends
\* RECOVERY COMPLETE with the counts, the finally clause clears the flag.
RaNotify(t) ==
    /\ thr[t].pc = "ra_walk"
    /\ thr[t].todo = {}
    /\ LET m == CompleteCountsMsg(thr[t].restored_count, thr[t].failed_count)
           snd == send_alert(NewSink(now), m, now)
       IN /\ alerts_log' = IF snd.accepted
                           THEN Append(alerts_log, LogRecord(m, now, "restore_all_files", thr[t].run))
                           ELSE alerts_log
          /\ hist' = [hist EXCEPT !.sent = Append(@, Submission(m, snd.accepted,
                                                                "restore_all_files", thr[t].run))]
    /\ recovery_in_progress' = FALSE
    /\ thr' = [thr EXCEPT ![t].pc = ReturnPc(thr[t].caller),
                          ![t].ret = <<thr[t].restored_count, thr[t].failed_count>>]
    /\ UNCHANGED <<now, live, shadow, queue, monitorVars, recovery_mode,
                   notification, configVars, storeVars>>

\* lines 83-95: reporting the result raises (the import, the sink's
\* constructor, print); the finally clause clears the flag.
RaRaise(t) ==
    /\ thr[t].pc = "ra_walk"
    /\ thr[t].todo = {}
    /\ recovery_in_progress' = FALSE
    /\ thr' = [thr EXCEPT ![t].pc = ExceptPc(thr[t].caller)]
    /\ UNCHANGED <<now, live, shadow, queue, monitorVars, recovery_mode,
                   notification, alerts_log, configVars, storeVars, hist>>

\* line 365
RrComplete(t) ==
    /\ thr[t].pc = "rr_complete"
    /\ MonitorSend(CompleteAllMsg, thr[t].run)
    /\ thr' = [thr EXCEPT ![t].pc = "rr_finally"]
    /\ UNCHANGED <<now, live, shadow, queue, monitorVars, recovery_mode,
                   recovery_in_progress, configVars, storeVars>>

\* lines 366-368
RrFailed(t) ==
    /\ thr[t].pc = "rr_failed"
    /\ MonitorSend(FailedMsg, thr[t].run)
    /\ thr' = [thr EXCEPT ![t].pc = "rr_finally"]
    /\ UNCHANGED <<now, live, shadow, queue, monitorVars, recovery_mode,
                   recovery_in_progress, configVars, storeVars>>

\* lines 369-371; the thread ends
RrFinally(t) ==
    /\ thr[t].pc = "rr_finally"
    /\ recovery_mode' = set_recovery_mode(recovery_mode, FALSE)
    /\ thr' = [thr EXCEPT ![t] = IdleThread]
    /\ hist' = [hist EXCEPT !.ext_at_idle = extension_changes]
    /\ UNCHANGED <<now, live, shadow, queue, monitorVars, recovery_in_progress,
                   notification, alerts_log, configVars, storeVars>>

TimerThread(t) ==
    \/ TimerFire(t)
    \/ RaCheck(t)
    \/ RaSet(t)
    \/ RaWalk(t)
    \/ RaNotify(t)
    \/ RaRaise(t)
    \/ RrComplete(t)
    \/ RrFailed(t)
    \/ RrFinally(t)

Environment ==
    \/ \E p \in AllPaths, c \in Contents : ExternalWrite(p, c)
    \/ \E p \in AllPaths : ExternalDelete(p)
    \/ \E p, q \in AllPaths : ExternalRename(p, q)

Dispatcher ==
    \E prediction \in Predictions :
        \/ on_created(prediction)
        \/ on_modified(prediction)
        \/ on_deleted(prediction)
        \/ on_moved(prediction)

Next ==
    \/ Environment
    \/ Tick
    \/ Dispatcher
    \/ \E t \in Threads : TimerThread(t)

Spec == Init /\ [][Next]_vars

\* The clock stops at MaxTime: a timer started later than MaxTime -
\* RECOVERY_TIMEOUT would never be seen to fire, so the runs in which liveness
\* is judged start no such timer.
Horizon == \A t \in Threads : thr[t].pc = "pending" => thr[t].fireAt <= MaxTime

LiveNext == Next /\ Horizon'

\* The timer thread is scheduled and the clock advances.
LiveSpec ==
    /\ Init
    /\ [][LiveNext]_vars
    /\ WF_vars(Tick)
    /\ \A t \in Threads : WF_vars(TimerThread(t))

\* ------------------------------- restore_all_files called by several threads
\* The watched tree after an attack (files overwritten or gone) and a shadow
\* tree holding any of the original files.
InitR ==
    /\ now = 0
    /\ live \in [AllPaths -> {"cipher", NoFile}]
    /\ shadow \in [AllPaths -> {"text", NoFile}]
    /\ queue = <<>>
    /\ recent_operations = <<>>
    /\ file_extensions = EmptyMap
    /\ extension_changes = 0
    /\ last_extension_reset = 0
    /\ recent_creates = EmptyMap
    /\ recent_deletes = EmptyMap
    /\ recovery_mode = FALSE
    /\ recovery_in_progress = FALSE
    /\ thr = [t \in Threads |-> [IdleThread EXCEPT !.pc = "ra_check", !.caller = "direct"]]
    /\ notification = NewSink(0)
    /\ alerts_log = <<>>
    /\ AUTO_RECOVERY = TRUE
    /\ REQUIRE_ML_CONFIRMATION = TRUE
    /\ hist = NoHistory
    /\ catalog = EmptyMap
    /\ api = NoCalls
    /\ eval = NoEval

RestoreAll(t) ==
    \/ RaCheck(t)
    \/ RaSet(t)
    \/ RaWalk(t)
    \/ RaNotify(t)
    \/ RaRaise(t)

NextR == \E t \in Threads : RestoreAll(t)

SpecR == InitR /\ [][NextR]_vars

\* ------------------------------------- the scorer on a monitor that has run
\* One event delivered to a monitor that has been running for a while: its
\* operation buffer holds earlier operations, old and recent, the counter and
\* its last reset have any age, a recovery may be pending. Besides the
\* handlers, _check_for_suspicious_activity is called on that state directly.
MaxOps == 3
\* the time of the delivery, and the times of the earlier operations
EvalNow == 45
OpTimes == {0, 36, 45}
\* operations in one burst: op_frequency reaches 12 per second
BurstLen == 120

Buffered(ts) == [i \in 1..Len(ts) |-> Operation(ts[i], "modified", "a.txt", "")]

Buffers ==
    {Buffered(ts) : ts \in {u \in UNION {[1..k -> OpTimes] : k \in 0..MaxOps} :
                                \A i \in 1..(Len(u) - 1) : u[i] <= u[i + 1]}}
    \cup {Buffered([i \in 1..BurstLen |-> EvalNow])}

DeliveredEvents ==
    {FsEvent(kind, "a.txt", "a.txt", "external") : kind \in {"created", "modified", "deleted"}}
    \cup {FsEvent("renamed", "a.txt", "a.txt.encrypted", "external")}

InitE ==
    /\ now = EvalNow
    /\ live \in {[InitialTree EXCEPT !["a.txt"] = c] : c \in Contents \cup {Packed, NoFile}}
    /\ shadow = InitialTree
    /\ queue \in {<<e>> : e \in DeliveredEvents}
    /\ recent_operations \in Buffers
    /\ file_extensions = [p \in {q \in AllPaths : InitialTree[q] # NoFile} |-> ExtOf(p)]
    /\ extension_changes \in {0, 3, 5}
    /\ last_extension_reset \in {0, 36}
    /\ recent_creates = EmptyMap
    /\ recent_deletes = EmptyMap
    /\ recovery_mode \in BOOLEAN
    /\ recovery_in_progress = FALSE
    /\ thr = [t \in Threads |->
                IF recovery_mode /\ t = 1
                THEN [IdleThread EXCEPT !.pc = "pending", !.caller = "timer",
                                        !.fireAt = now + RECOVERY_TIMEOUT, !.run = 1]
                ELSE IdleThread]
    /\ notification = NewSink(0)
    /\ alerts_log = <<>>
    /\ AUTO_RECOVERY = TRUE
    /\ REQUIRE_ML_CONFIRMATION \in BOOLEAN
    /\ hist = [NoHistory EXCEPT !.arms = IF recovery_mode THEN 1 ELSE 0]
    /\ catalog = EmptyMap
    /\ api = NoCalls
    /\ eval = NoEval

\* _check_for_suspicious_activity() called once on the monitor as it is
Evaluate(prediction) ==
    /\ ~eval.called
    /\ LET chk == check_for_suspicious_activity(now, recent_operations, extension_changes,
                                                last_extension_reset, recent_creates,
                                                recent_deletes, recovery_mode, live,
                                                REQUIRE_ML_CONFIRMATION, prediction)
       IN /\ extension_changes' = chk.ext
          /\ last_extension_reset' = chk.ler
          /\ recent_creates' = chk.rc
          /\ recent_deletes' = chk.rd
          /\ eval' = [called |-> TRUE, at |-> now, prediction |-> prediction,
                      ops |-> recent_operations, scored |-> chk.scored,
                      is_suspicious |-> chk.is_suspicious, n |-> chk.n, ext |-> chk.ext,
                      S |-> chk.S, k |-> chk.k]
    /\ UNCHANGED <<now, live, shadow, queue, recent_operations, file_extensions,
                   recovery_mode, recovery_in_progress, thr, notification, alerts_log,
                   configVars, hist, catalog, api>>

NextE ==
    \/ Dispatcher
    \/ \E prediction \in Predictions : Evaluate(prediction)

SpecE == InitE /\ [][NextE]_vars

\* ------------------------------------------------ one sink, many alerts
\* send_alert called again and again on one NotificationSystem, seconds,
\* minutes or a day apart.
MaxSends == 3
\* the instants of the calls: within the cooldown of one another, a cooldown
\* apart, and before and after the fingerprints of the first day are cleared
SendTimes == {0, 10, 60, 70, 86400, 86410, 86460}

\* two detection messages that differ in their middle only, one that differs
\* in its last 20 characters, and a message of another kind
SinkMessages ==
    {DetectionMsg(3, 0, TRUE), DetectionMsg(4, 0, TRUE), DetectionMsg(3, 0, FALSE), FailedMsg}

InitN ==
    /\ now = 0
    /\ live = InitialTree
    /\ shadow = InitialTree
    /\ queue = <<>>
    /\ recent_operations = <<>>
    /\ file_extensions = EmptyMap
    /\ extension_changes = 0
    /\ last_extension_reset = 0
    /\ recent_creates = EmptyMap
    /\ recent_deletes = EmptyMap
    /\ recovery_mode = FALSE
    /\ recovery_in_progress = FALSE
    /\ thr = [t \in Threads |-> IdleThread]
    /\ notification = NewSink(0)
    /\ alerts_log = <<>>
    /\ AUTO_RECOVERY = TRUE
    /\ REQUIRE_ML_CONFIRMATION = TRUE
    /\ hist = NoHistory
    /\ catalog = EmptyMap
    /\ api = NoCalls
    /\ eval = NoEval

sinkVars == <<notification, alerts_log, hist>>

\* notification.send_alert(m)
SinkSend(m) ==
    /\ Len(hist.sent) < MaxSends
    /\ LET snd == send_alert(notification, m, now)
       IN /\ notification' = snd.sink
          /\ alerts_log' = IF snd.accepted
                           THEN Append(alerts_log, LogRecord(m, now, "caller", 0))
                           ELSE alerts_log
          /\ hist' = [hist EXCEPT !.sent = Append(@, Submission(m, snd.accepted, "caller", 0))]
    /\ UNCHANGED <<now, live, shadow, queue, monitorVars, recovery_mode,
                   recovery_in_progress, thr, configVars, storeVars>>

Wait(t) ==
    /\ t > now
    /\ now' = t
    /\ UNCHANGED <<live, shadow, queue, monitorVars, recovery_mode, recovery_in_progress,
                   thr, sinkVars, configVars, storeVars>>

NextN ==
    \/ \E m \in SinkMessages : SinkSend(m)
    \/ \E t \in SendTimes : Wait(t)

SpecN == InitN /\ [][NextN]_vars

\* ------------------------------------------- a second run after a failed one
\* The monitor as a failed restore run leaves it, armed again within the same
\* second: run 1 has ended in the except clause of recover_and_reset (RECOVERY
\* FAILED accepted and logged, recovery mode cleared), and the three events
\* handled since have armed run 2. The clock starts at that second; the alerts
\* of run 1, sent up to RECOVERY_TIMEOUT seconds earlier, are stamped with it,
\* which changes no cooldown or dedup decision before the clock stops.
FirstRunAlerts == <<DetectionMsg(3, 0, TRUE), InitiatedMsg(0), FailedMsg>>
FirstRunSenders == <<"dispatcher", "recover_and_reset", "recover_and_reset">>
RECURSIVE SinkAfter(_, _, _)
SinkAfter(sink, msgs, t) ==
    IF msgs = <<>> THEN sink ELSE SinkAfter(send_alert(sink, Head(msgs), t).sink, Tail(msgs), t)

InitF ==
    /\ now = 0
    /\ live \in [AllPaths -> Contents \cup {NoFile}]
    /\ shadow \in {[InitialTree EXCEPT !["a.txt.encrypted"] = c] : c \in {"cipher", NoFile}}
    /\ queue = <<>>
    /\ recent_operations = Buffered(<<0, 0, 0>>)
    /\ file_extensions = [p \in {q \in AllPaths : InitialTree[q] # NoFile} |-> ExtOf(p)]
    /\ extension_changes = 0
    /\ last_extension_reset = 0
    /\ recent_creates = EmptyMap
    /\ recent_deletes = EmptyMap
    /\ recovery_mode = TRUE
    /\ recovery_in_progress = FALSE
    /\ thr = [t \in Threads |->
                IF t = 1
                THEN [IdleThread EXCEPT !.pc = "pending", !.caller = "timer",
                                        !.fireAt = now + RECOVERY_TIMEOUT, !.run = 2]
                ELSE IdleThread]
    /\ notification = SinkAfter(NewSink(0), FirstRunAlerts, 0)
    /\ alerts_log = [i \in 1..3 |-> LogRecord(FirstRunAlerts[i], 0, FirstRunSenders[i],
                                              IF i = 1 THEN 0 ELSE 1)]
    /\ AUTO_RECOVERY = TRUE
    /\ REQUIRE_ML_CONFIRMATION \in BOOLEAN
    /\ hist = [NoHistory EXCEPT !.arms = 2, !.restore_calls = 1, !.verdicts = 2,
                                !.sent = [i \in 1..3 |->
                                    [msg |-> FirstRunAlerts[i], accepted |-> TRUE,
                                     by |-> FirstRunSenders[i],
                                     run |-> IF i = 1 THEN 0 ELSE 1,
                                     origin |-> IF i = 1 THEN "external" ELSE "none",
                                     mode |-> i # 1]]]
    /\ catalog = EmptyMap
    /\ api = NoCalls
    /\ eval = NoEval

\* run 2 by itself: the events its restores cause stay in the queue
NextF ==
    \/ Tick
    \/ \E t \in Threads : TimerThread(t)

SpecF == InitF /\ [][NextF]_vars

\* =========================================== file_utils: the checksum catalog
\* Calls of the store made by one caller while another process writes the
\* watched tree. A row of file_checksums is [checksum, deleted, last_updated];
\* path is the PRIMARY KEY, so the table is a function of the path. The
\* column last_modified is written and never read, and is left out.
SecondsPerDay == 86400

\* a column holding NULL / a Python None
None == "None"

\* compute_checksum: the MD5 digest of the file's bytes, None when the file
\* does not exist. Different contents have different digests.
compute_checksum(c) ==
    CASE c = NoFile -> None
      [] c = "text" -> "md5_of_text"
      [] c = "cipher" -> "md5_of_cipher"

\* line 104: the deleted column written with a checksum
store_deleted_flag_kept(had_row) == had_row
store_deleted_flag(had_row) == FALSE

\* store_file_checksum(file_path, is_deleted) at time t
store_file_checksum(cat, fs, p, is_deleted, t) ==
    IF is_deleted
    THEN [ret |-> TRUE,
          catalog |-> IF p \in DOMAIN cat
                      THEN [cat EXCEPT ![p].deleted = TRUE, ![p].last_updated = t]
                      ELSE Put(cat, p, [checksum |-> None, deleted |-> TRUE,
                                        last_updated |-> t])]
    ELSE IF fs[p] = NoFile
    THEN [ret |-> FALSE, catalog |-> cat]
    ELSE [ret |-> TRUE,
          catalog |-> Put(cat, p, [checksum |-> compute_checksum(fs[p]),
                                   deleted |-> store_deleted_flag(p \in DOMAIN cat),
                                   last_updated |-> t])]

\* is_file_modified(file_path)
is_file_modified(cat, fs, p) ==
    IF fs[p] = NoFile THEN FALSE
    ELSE IF p \notin DOMAIN cat THEN FALSE
    ELSE IF cat[p].deleted THEN TRUE
    ELSE cat[p].checksum # compute_checksum(fs[p])

\* lines 242-249: whether checksum_recovery wants to restore a row
restore_needed_unless_missing(content, checksum) ==
    content # NoFile /\ checksum # None /\ compute_checksum(content) # checksum
restore_needed(content, checksum) ==
    \/ content = NoFile
    \/ (checksum # None /\ compute_checksum(content) # checksum)

\* checksum_recovery(detection_time) at time t; detection_time 0 stands for
\* None as well, both being false in "if detection_time". failing holds the
\* paths whose copy raises (lines 276-277).
checksum_recovery(cat, fs, sh, detection_time, t, failing) ==
    LET selected == IF detection_time # 0
                    THEN {p \in DOMAIN cat : \/ ~cat[p].deleted
                                             \/ (cat[p].deleted /\
                                                 cat[p].last_updated > detection_time)}
                    ELSE {p \in DOMAIN cat : ~cat[p].deleted}
        skipped == {p \in selected : cat[p].deleted}
        restored == {p \in selected \ skipped :
                        /\ restore_needed(fs[p], cat[p].checksum)
                        /\ sh[p] # NoFile
                        /\ p \notin failing}
    IN [ret |-> Cardinality(restored),
        restored |-> restored,
        skipped |-> skipped,
        live |-> [p \in DOMAIN fs |-> IF p \in restored THEN sh[p] ELSE fs[p]],
        catalog |-> [p \in DOMAIN cat |->
                        IF p \in restored
                        THEN [checksum |-> compute_checksum(sh[p]), deleted |-> FALSE,
                              last_updated |-> t]
                        ELSE cat[p]]]

\* cleanup_old_checksums(days): line 297 evaluates datetime.timedelta on the
\* class datetime.datetime (line 7 imports the class, not the module), which
\* raises AttributeError before the DELETE; the except clause returns 0.
cleanup_old_checksums(cat, t, days) == [ret |-> 0, catalog |-> cat]

\* FileRecovery.restore_file(relative_path)
restore_file(fs, sh, p) ==
    IF sh[p] = NoFile THEN [ret |-> FALSE, live |-> fs]
    ELSE [ret |-> TRUE, live |-> [fs EXCEPT ![p] = sh[p]]]

\* ------------------------------------------------- the calls, one at a time
pipelineVars == <<queue, monitorVars, recovery_mode, recovery_in_progress, thr,
                  notification, alerts_log, configVars, hist, eval>>

Snapshot == [live |-> live, shadow |-> shadow, catalog |-> catalog]

\* the catalog row of p, or "no row"
RowOf(cat, p) == IF p \in DOMAIN cat THEN cat[p] ELSE "no row"

\* what is kept of the call before the last one: the call, and the row and
\* the shadow copy it left for its path (nothing but a call changes them)
Summary(c) ==
    IF c.op = "none" THEN [op |-> "none", path |-> "", ret |-> FALSE, seen |-> {}]
    ELSE [op |-> c.op, path |-> c.path, ret |-> c.ret, seen |-> c.seen,
          row |-> RowOf(catalog, c.path),
          copy |-> IF c.path \in AllPaths THEN shadow[c.path] ELSE NoFile]

\* A call's record is "done" when the call has returned and "past" once the
\* other process has written the tree since.
CanCall == api.last.pc \in {"done", "past"} /\ api.calls < MaxCalls

Disturbed(a) == [a EXCEPT !.calls = @ + 1,
                          !.last.pc = IF @ = "done" THEN "past" ELSE @]

Call(op, p, arg, ret, seen, restored, skipped) ==
    [op |-> op, path |-> p, pc |-> "done", ret |-> ret, arg |-> arg,
     before |-> Snapshot, seen |-> seen, restored |-> restored, skipped |-> skipped]

\* the other process writes or removes a file of the watched tree
OtherWrite(p, c) ==
    /\ api.calls < MaxCalls
    /\ live[p] # c
    /\ live' = [live EXCEPT ![p] = c]
    /\ api' = Disturbed(api)
    /\ UNCHANGED <<now, shadow, catalog, pipelineVars>>

OtherDelete(p) ==
    /\ api.calls < MaxCalls
    /\ live[p] # NoFile
    /\ live' = [live EXCEPT ![p] = NoFile]
    /\ api' = Disturbed(api)
    /\ UNCHANGED <<now, shadow, catalog, pipelineVars>>

DayPasses ==
    /\ now + SecondsPerDay <= MaxDays * SecondsPerDay
    /\ now' = now + SecondsPerDay
    /\ UNCHANGED <<live, shadow, catalog, api, pipelineVars>>

\* FileRecovery.backup_file(source_path, relative_path)
CallBackupFile(p) ==
    /\ CanCall
    /\ shadow' = backup_file(shadow, live, p)
    /\ api' = [last |-> Call("backup_file", p, 0, live[p] # NoFile, {live[p]}, {}, {}),
               prev |-> Summary(api.last),
               calls |-> api.calls + 1,
               backed |-> IF live[p] # NoFile THEN Put(api.backed, p, live[p])
                          ELSE api.backed]
    /\ UNCHANGED <<now, live, catalog, pipelineVars>>

\* FileRecovery.restore_file(relative_path)
CallRestoreFile(p) ==
    /\ CanCall
    /\ LET r == restore_file(live, shadow, p)
       IN /\ live' = r.live
          /\ api' = [api EXCEPT !.last = Call("restore_file", p, 0, r.ret, {}, {}, {}),
                                !.prev = Summary(api.last),
                                !.calls = @ + 1]
    /\ UNCHANGED <<now, shadow, catalog, pipelineVars>>

\* store_file_checksum(file_path) and store_file_checksum(file_path, True)
CallStoreFileChecksum(p, is_deleted) ==
    /\ CanCall
    /\ LET r == store_file_checksum(catalog, live, p, is_deleted, now)
       IN /\ catalog' = r.catalog
          /\ api' = [api EXCEPT !.last = Call("store_file_checksum", p,
                                              IF is_deleted THEN 1 ELSE 0, r.ret,
                                              {live[p]}, {}, {}),
                                !.prev = Summary(api.last),
                                !.calls = @ + 1]
    /\ UNCHANGED <<now, live, shadow, pipelineVars>>

\* is_file_modified(file_path)
CallIsFileModified(p) ==
    /\ CanCall
    /\ api' = [api EXCEPT !.last = Call("is_file_modified", p, 0,
                                        is_file_modified(catalog, live, p),
                                        {live[p]}, {}, {}),
                          !.prev = Summary(api.last),
                          !.calls = @ + 1]
    /\ UNCHANGED <<now, live, shadow, catalog, pipelineVars>>

\* backup_with_checksum(src_path, dest_path), lines 160-168: the copy
BwcCopy(p) ==
    /\ CanCall
    /\ shadow' = IF live[p] # NoFile THEN [shadow EXCEPT ![p] = live[p]] ELSE shadow
    /\ api' = [last |-> [Call("backup_with_checksum", p, 0, FALSE, {live[p]}, {}, {})
                            EXCEPT !.pc = IF live[p] # NoFile THEN "store" ELSE "done"],
               prev |-> Summary(api.last),
               calls |-> api.calls + 1,
               backed |-> IF live[p] # NoFile THEN Put(api.backed, p, live[p])
                          ELSE api.backed]
    /\ UNCHANGED <<now, live, catalog, pipelineVars>>

\* backup_with_checksum, lines 171-174: store_file_checksum(src_path) reads
\* the source again; its result is not looked at
BwcStore ==
    /\ api.last.pc = "store"
    /\ LET p == api.last.path
           r == store_file_checksum(catalog, live, p, FALSE, now)
       IN /\ catalog' = r.catalog
          /\ api' = [api EXCEPT !.last.pc = "done", !.last.ret = TRUE,
                                !.last.seen = @ \cup {live[p]}]
    /\ UNCHANGED <<now, live, shadow, pipelineVars>>

\* checksum_recovery(detection_time)
CallChecksumRecovery(detection_time, failing) ==
    /\ CanCall
    /\ LET r == checksum_recovery(catalog, live, shadow, detection_time, now, failing)
       IN /\ live' = r.live
          /\ catalog' = r.catalog
          /\ api' = [api EXCEPT !.last = [Call("checksum_recovery", "", detection_time,
                                               FALSE, failing, r.restored, r.skipped)
                                             EXCEPT !.ret = r.ret],
                                !.prev = Summary(api.last),
                                !.calls = @ + 1]
    /\ UNCHANGED <<now, shadow, pipelineVars>>

\* cleanup_old_checksums(days)
CallCleanup(days) ==
    /\ CanCall
    /\ LET r == cleanup_old_checksums(catalog, now, days)
       IN /\ catalog' = r.catalog
          /\ api' = [api EXCEPT !.last = [Call("cleanup_old_checksums", "", days, FALSE,
                                               {}, {}, {}) EXCEPT !.ret = r.ret],
                                !.prev = Summary(api.last),
                                !.calls = @ + 1]
    /\ UNCHANGED <<now, live, shadow, pipelineVars>>

\* the detection times a caller passes: 0 for none, or a day of the run
DetectionTimes == {d * SecondsPerDay : d \in 0..MaxDays}

InitS ==
    /\ now = SecondsPerDay
    /\ live = InitialTree
    /\ shadow = [p \in AllPaths |-> NoFile]
    /\ queue = <<>>
    /\ recent_operations = <<>>
    /\ file_extensions = EmptyMap
    /\ extension_changes = 0
    /\ last_extension_reset = 0
    /\ recent_creates = EmptyMap
    /\ recent_deletes = EmptyMap
    /\ recovery_mode = FALSE
    /\ recovery_in_progress = FALSE
    /\ thr = [t \in Threads |-> IdleThread]
    /\ notification = NewSink(0)
    /\ alerts_log = <<>>
    /\ AUTO_RECOVERY = TRUE
    /\ REQUIRE_ML_CONFIRMATION = TRUE
    /\ hist = NoHistory
    /\ catalog = EmptyMap
    /\ api = NoCalls
    /\ eval = NoEval

NextS ==
    \/ \E p \in AllPaths, c \in Contents : OtherWrite(p, c)
    \/ \E p \in AllPaths : OtherDelete(p)
    \/ DayPasses
    \/ \E p \in AllPaths : CallBackupFile(p)
    \/ \E p \in AllPaths : CallRestoreFile(p)
    \/ \E p \in AllPaths, is_deleted \in BOOLEAN : CallStoreFileChecksum(p, is_deleted)
    \/ \E p \in AllPaths : CallIsFileModified(p)
    \/ \E p \in AllPaths : BwcCopy(p)
    \/ BwcStore
    \/ \E dt \in DetectionTimes, failing \in SUBSET AllPaths : CallChecksumRecovery(dt, failing)
    \/ \E days \in 0..MaxDays : CallCleanup(days)

SpecS == InitS /\ [][NextS]_vars

\* ================================================================== claims
\* the detection alerts submitted by the dispatcher so far
DetectionsSubmitted(h) ==
    Cardinality({i \in 1..Len(h.sent) : h.sent[i].by = "dispatcher"})

\* C1: while recovery_mode is set, no step yields a suspicious verdict: no
\* detection alert is submitted, and no restore is scheduled.
C1_NoDetectionInRecoveryMode ==
    [][recovery_mode =>
          /\ hist'.verdicts = hist.verdicts
          /\ DetectionsSubmitted(hist') = DetectionsSubmitted(hist)
          /\ hist'.arms = hist.arms
          /\ \A t \in Threads : thr'[t].pc = "pending" => thr[t].pc = "pending"]_vars

\* a handler with three operations or more on record ran in recovery mode
C1_Witness == hist.skipped > 0 /\ recovery_mode

\* the timer threads at one of the given positions
ThreadsAt(pcs) == {t \in Threads : thr[t].pc \in pcs}

\* C2: detections that follow an arming start no further timer and no further
\* restore: at most one timer thread is pending or running, and every arming
\* has started exactly one restore_all_files call once its timer has fired.
C2_OneRestorePerArming ==
    /\ Cardinality(ThreadsAt({"pending"})) <= 1
    /\ Cardinality({t \in Threads : thr[t].pc # "idle"}) <= 1
    /\ hist.arms = hist.restore_calls + Cardinality(ThreadsAt({"pending", "ra_check"}))

\* an event with three operations or more on record was handled while the
\* timer was pending
C2_Witness == hist.skipped > 0 /\ ThreadsAt({"pending"}) # {} /\ hist.arms = 1

\* C3: an event produced by the restore's own writes never causes a
\* detection, however late the watcher delivers it.
C3_RestoreEventsNeverDetected ==
    \A i \in 1..Len(hist.sent) :
        hist.sent[i].by = "dispatcher" => hist.sent[i].origin # "restore"

\* C4 as the specification states it: when the restore run finishes and the
\* recovery mode is cleared, extension_changes is 0 and last_extension_reset
\* is stamped at that moment.
C4_ResetAtCompletion ==
    [][(recovery_mode /\ ~recovery_mode') =>
          (extension_changes' = 0 /\ last_extension_reset' = now')]_vars

\* C4 as the code has it: the counter and the stamp are reset by the handler
\* that schedules the recovery (lines 376-378); the end of the run changes
\* neither, so changes counted while the recovery is armed or running remain.
C4_ResetAtScheduling ==
    [][/\ hist'.arms # hist.arms =>
             (extension_changes' = 0 /\ last_extension_reset' = now)
       /\ (recovery_mode /\ ~recovery_mode') =>
             UNCHANGED <<extension_changes, last_extension_reset>>]_vars

\* a restore run has finished with extension changes on the counter
C4_Witness == hist.ext_at_idle > 0 /\ ~recovery_mode /\ hist.arms = 1

\* C5: once the recovery mode is set it is eventually cleared, whether
\* restore_all_files returns or raises.
C5_RecoveryModeEventuallyCleared == recovery_mode ~> ~recovery_mode

\* a run in which restore_all_files raised has ended with the mode cleared
C5_Witness ==
    /\ ~recovery_mode
    /\ hist.arms = 1
    /\ \E i \in 1..Len(hist.sent) : hist.sent[i].msg = FailedMsg

\* the RECOVERY PROCESS INITIATED alerts submitted so far
InitiatedSubmitted(h) ==
    Cardinality({i \in 1..Len(h.sent) : h.sent[i].msg.head = InitiatedMsg(0).head})

\* C6 as the specification states it: RECOVERY PROCESS INITIATED is submitted
\* at the moment a detection arms the timer, so every arming has its alert.
C6_InitiatedAtArming == InitiatedSubmitted(hist) = hist.arms

\* C6 as the code has it: the alert is submitted by the timer's callback when
\* the timer fires, so the armings whose timer is pending have none yet.
C6_InitiatedWhenTimerFires ==
    InitiatedSubmitted(hist) + Cardinality(ThreadsAt({"pending"})) = hist.arms

\* the timer has fired after its wait and the alert has been submitted then
C6_Witness ==
    /\ InitiatedSubmitted(hist) = 1
    /\ hist.arms = 1
    /\ \E i \in 1..Len(hist.sent) : hist.sent[i].msg = InitiatedMsg(RECOVERY_TIMEOUT)

\* the completion records of run r in the alerts log
CompletionRecords(r) ==
    {i \in 1..Len(alerts_log) :
        /\ alerts_log[i].run = r
        /\ alerts_log[i].msg.head \in {CompleteAllMsg.head, FailedMsg.head}}

\* C7: each restore run has at most one completion record in the alerts
\* log, and that record carries the (restored, failed) counts.
C7_OneCompletionRecordPerRun ==
    \A r \in 1..hist.arms :
        /\ Cardinality(CompletionRecords(r)) <= 1
        /\ \A i \in CompletionRecords(r) : Len(alerts_log[i].msg.reason) = 2

\* C8: with AUTO_RECOVERY disabled every detection is submitted to the sink,
\* no timer is started, restore_all_files is never called and the recovery
\* mode is never set.
C8_NoRecoveryWhenDisabled ==
    ~AUTO_RECOVERY =>
        /\ DetectionsSubmitted(hist) = hist.verdicts
        /\ hist.arms = 0
        /\ hist.restore_calls = 0
        /\ \A t \in Threads : thr[t].pc = "idle"
        /\ ~recovery_mode

\* a detection has been made with AUTO_RECOVERY disabled
C8_Witness == ~AUTO_RECOVERY /\ hist.verdicts > 0

\* C9: of the concurrent restore_all_files calls at most one walks the
\* shadow tree; the others return (0, 0).
C9_AtMostOneWalk == Cardinality({t \in Threads : thr[t].walked}) <= 1

\* C10: a restore_all_files call that walked the shadow tree has visited
\* every file it listed, failed restores included, and returns the counts,
\* which add up to the number of files listed.
C10_WalkVisitsEveryFile ==
    \A t \in Threads :
        (thr[t].pc = "returned" /\ thr[t].walked) =>
            /\ thr[t].done = thr[t].snap
            /\ thr[t].restored_count + thr[t].failed_count = Cardinality(thr[t].snap)
            /\ thr[t].ret = <<thr[t].restored_count, thr[t].failed_count>>

\* a walk has returned after one restore failed and another succeeded
C10_Witness ==
    \E t \in Threads :
        /\ thr[t].pc = "returned"
        /\ thr[t].walked
        /\ thr[t].failed_count >= 1
        /\ thr[t].restored_count >= 1

\* the last call, if it has just returned
Returned(op) == api.last.op = op /\ api.last.pc = "done"

\* C11: restore_file(p) after backup_file(p) leaves the live file with the
\* content p had when it was backed up, whatever was done to the live file
\* in between.
C11_RestoreGivesBackedUpContent ==
    (Returned("restore_file") /\ api.last.ret) =>
        /\ api.last.path \in DOMAIN api.backed
        /\ live[api.last.path] = api.backed[api.last.path]

\* a restore has returned for a file that was changed or removed after its
\* backup
C11_Witness ==
    /\ Returned("restore_file")
    /\ api.last.ret
    /\ api.last.before.live[api.last.path] # api.last.before.shadow[api.last.path]

\* C12: when restore_all_files has returned without a failed restore, every
\* live file has a catalog row whose checksum is the hash of its content.
C12_LiveMatchesCatalogAfterRestore ==
    \A t \in Threads :
        (thr[t].pc = "rr_complete" /\ thr[t].walked /\ thr[t].failed_count = 0) =>
            \A p \in AllPaths :
                live[p] # NoFile =>
                    /\ p \in DOMAIN catalog
                    /\ catalog[p].checksum = compute_checksum(live[p])

\* C13: when backup_with_checksum has returned True, the catalog checksum of
\* its path is the hash of the content it copied into the shadow tree.
C13_ChecksumIsHashOfCopy ==
    (Returned("backup_with_checksum") /\ api.last.ret) =>
        /\ api.last.path \in DOMAIN catalog
        /\ catalog[api.last.path].checksum = compute_checksum(shadow[api.last.path])

\* C14: between calls, every path that has been backed up has a catalog
\* row. (path being the primary key, a path never has two rows.)
C14_BackedUpPathHasItsRow ==
    api.last.pc # "store" => \A p \in DOMAIN api.backed : p \in DOMAIN catalog

\* C15: while restore_all_files is in progress no step changes the shadow
\* tree: no handler copies a file into it.
C15_NoBackupWriteDuringRestore ==
    [][recovery_in_progress => shadow' = shadow]_vars

\* C16: checksum_recovery(detection_time) restores from the shadow tree
\* every row tombstoned after detection_time whose live file is missing or
\* differs from the catalog hash (a shadow copy existing and the copy not
\* raising).
C16_TombstonedAfterDetectionRestored ==
    (Returned("checksum_recovery") /\ api.last.arg # 0) =>
        LET b == api.last.before
        IN \A p \in DOMAIN b.catalog :
              (/\ b.catalog[p].deleted
               /\ b.catalog[p].last_updated > api.last.arg
               /\ \/ b.live[p] = NoFile
                  \/ /\ b.catalog[p].checksum # None
                     /\ compute_checksum(b.live[p]) # b.catalog[p].checksum
               /\ b.shadow[p] # NoFile
               /\ p \notin api.last.seen)
              => (p \in api.last.restored /\ live[p] = b.shadow[p])

\* the rows checksum_recovery has to restore when it is given no detection
\* time: live rows whose file is missing or hashes differently, and which
\* have a shadow copy
Diverged(b) ==
    {p \in DOMAIN b.catalog :
        /\ ~b.catalog[p].deleted
        /\ \/ b.live[p] = NoFile
           \/ compute_checksum(b.live[p]) # b.catalog[p].checksum
        /\ b.shadow[p] # NoFile}

\* C17: checksum_recovery without a detection time restores exactly the
\* live rows whose file is missing or differs from the catalog hash and have
\* a shadow copy (save those whose copy raises), returns their number, and
\* changes neither the live tree nor the catalog when there is none.
C17_RestoresExactlyDivergedRows ==
    (Returned("checksum_recovery") /\ api.last.arg = 0) =>
        LET b == api.last.before
        IN /\ api.last.restored = Diverged(b) \ api.last.seen
           /\ api.last.ret = Cardinality(api.last.restored)
           /\ \A p \in AllPaths :
                 live[p] = IF p \in api.last.restored THEN b.shadow[p] ELSE b.live[p]
           /\ Diverged(b) = {} => (live = b.live /\ catalog = b.catalog)

C17_Witness ==
    /\ Returned("checksum_recovery") /\ api.last.arg = 0
    /\ api.last.ret > 0
    /\ \E p \in api.last.restored : api.last.before.live[p] = NoFile

\* C18: is_file_modified(path) returns false when the path has no catalog
\* row, true when its row is tombstoned, and otherwise true exactly when the
\* hash of the current content differs from the catalog checksum.
C18_IsModifiedFollowsCatalog ==
    Returned("is_file_modified") =>
        LET b == api.last.before
            p == api.last.path
        IN api.last.ret = (IF p \notin DOMAIN b.catalog THEN FALSE
                           ELSE IF b.catalog[p].deleted THEN TRUE
                           ELSE compute_checksum(b.live[p]) # b.catalog[p].checksum)

\* lines 296-297: the cutoff the DELETE is meant to use, midnight of the
\* current day less the given number of days
cutoff_date(t, days) == (t - (t % SecondsPerDay)) - days * SecondsPerDay

\* C19: after cleanup_old_checksums(days) no tombstoned row older than the
\* cutoff remains, and every other row is as it was.
C19_CleanupDeletesOldTombstones ==
    Returned("cleanup_old_checksums") =>
        LET b == api.last.before
            old == {p \in DOMAIN b.catalog :
                       /\ b.catalog[p].deleted
                       /\ b.catalog[p].last_updated < cutoff_date(now, api.last.arg)}
        IN /\ DOMAIN catalog = DOMAIN b.catalog \ old
           /\ \A p \in DOMAIN catalog : catalog[p] = b.catalog[p]

\* the last two calls were successful backup_with_checksum calls of the
\* same path, and both read the same content throughout
BackedUpTwiceUnchanged ==
    /\ Returned("backup_with_checksum") /\ api.last.ret
    /\ api.prev.op = "backup_with_checksum" /\ api.prev.ret
    /\ api.prev.path = api.last.path
    /\ Cardinality(api.prev.seen \cup api.last.seen) = 1

\* C20: a second backup_with_checksum of unchanged content leaves what the
\* first one left: one row for the path with the same checksum and
\* deleted = false, and the same shadow copy.
C20_SecondBackupChangesNothing ==
    BackedUpTwiceUnchanged =>
        LET p == api.last.path
        IN /\ p \in DOMAIN catalog
           /\ catalog[p].checksum = api.prev.row.checksum
           /\ ~catalog[p].deleted /\ ~api.prev.row.deleted
           /\ shadow[p] = api.prev.copy
           /\ \A q \in DOMAIN catalog \ {p} : q \in DOMAIN api.last.before.catalog
                                               /\ catalog[q] = api.last.before.catalog[q]

C20_Witness ==
    /\ BackedUpTwiceUnchanged
    /\ catalog[api.last.path].checksum = compute_checksum(live[api.last.path])

\* the operations of a buffer recorded within the last W_op seconds before t
RecentCount(ops, t) == Cardinality({i \in 1..Len(ops) : t - ops[i].ts < op_window})

\* a handler has come to a suspicious verdict in this step
VerdictStep == hist'.verdicts > hist.verdicts
\* _check_for_suspicious_activity has been called directly in this step
EvaluateStep == ~eval.called /\ eval'.called

\* C21: a suspicious verdict is reached only with at least 3 operations
\* recorded within the last 10 seconds, whatever the counter, the entropies
\* and the model say.
C21_VerdictNeedsThreeRecentOperations ==
    [][/\ VerdictStep => RecentCount(recent_operations', now) >= 3
       /\ (EvaluateStep /\ eval'.is_suspicious) => RecentCount(recent_operations, now) >= 3]_vars

C21_Witness ==
    /\ hist.verdicts > 0
    /\ RecentCount(recent_operations, now) = 3
    /\ Len(recent_operations) > 3

\* a handler has processed an event in this step
HandlerStep == queue # <<>> /\ queue' = Tail(queue)

\* C22: the counter is never negative, and an event processed more than
\* W_ext seconds after the last reset stamps last_extension_reset with the
\* time of its handling.
C22_ResetWhenWindowExpired ==
    [][/\ extension_changes' >= 0
       /\ (HandlerStep /\ now - last_extension_reset > extension_change_window)
              => last_extension_reset' = now]_vars

\* C23: after an event has been processed, the buffer the operation
\* frequency is computed from holds only operations of the last W_op seconds.
C23_BufferHoldsOnlyRecentOperations ==
    [][HandlerStep =>
          \A i \in 1..Len(recent_operations') : now - recent_operations'[i].ts <= op_window]_vars

\* the timestamps of a buffer within the last W_op seconds before t
RecentTimes(ops, t) == {ops[i].ts : i \in {j \in 1..Len(ops) : t - ops[j].ts <= op_window}}
Oldest(T) == CHOOSE x \in T : \A y \in T : x <= y

\* C24: the operation rate handed to the scorer, eval.n / op_frequency_divisor,
\* equals count / max(now - oldest, 1) over the operations of the last W_op
\* seconds (the two fractions compared by cross-multiplication).
C24_RateIsCountOverSpan ==
    (eval.called /\ eval.scored) =>
        LET count == Cardinality({j \in 1..Len(eval.ops) : eval.at - eval.ops[j].ts <= op_window})
            oldest == Oldest(RecentTimes(eval.ops, eval.at))
        IN count >= 2 => eval.n * Max(eval.at - oldest, 1) = count * op_frequency_divisor

\* the scorer has been called directly and has reached the scoring
Scored == eval.called /\ eval.scored
threshold_positive == is_suspicious_threshold(eval.n, eval.ext, eval.S, eval.k)
rule_positive == rule_based_detection(eval.n, eval.ext, eval.S, eval.k)
model_positive == eval.prediction = "anomaly"

\* C25: with a model at hand, the verdict is threshold_positive and
\* model_positive under REQUIRE_ML_CONFIRMATION, and threshold_positive or
\* rule_positive or model_positive otherwise, model_positive being the
\* forest's verdict alone.
C25_VerdictCombinesThresholdRuleModel ==
    (Scored /\ eval.prediction # "unavailable") =>
        eval.is_suspicious = IF REQUIRE_ML_CONFIRMATION
                             THEN threshold_positive /\ model_positive
                             ELSE threshold_positive \/ rule_positive \/ model_positive

\* C26: without a model, and without REQUIRE_ML_CONFIRMATION, a vector that
\* is threshold-positive or rule-positive is reported suspicious.
C26_RulesApplyWithoutModel ==
    (Scored /\ eval.prediction = "unavailable" /\ ~REQUIRE_ML_CONFIRMATION) =>
        ((threshold_positive \/ rule_positive) => eval.is_suspicious)

\* send_alert has been called on the sink in this step; what it was given
\* and what it returned
SendStep == Len(hist'.sent) = Len(hist.sent) + 1 /\ now' = now
Sent == hist'.sent[Len(hist'.sent)]

\* C27: an accepted alert comes at least COOLDOWN after every earlier
\* accepted alert of its kind and adds exactly one record to the alerts
\* log; a suppressed alert adds none.
C27_CooldownPerKindOneRecordPerAlert ==
    [][SendStep =>
          IF Sent.accepted
          THEN /\ alerts_log' = Append(alerts_log, LogRecord(Sent.msg, now, Sent.by, Sent.run))
               /\ \A i \in 1..Len(alerts_log) :
                     get_message_type(alerts_log[i].msg) = get_message_type(Sent.msg)
                         => now - alerts_log[i].at >= alert_cooldown
          ELSE alerts_log' = alerts_log]_vars

C27_Witness ==
    /\ \E i, j \in 1..Len(alerts_log) :
          /\ i < j
          /\ get_message_type(alerts_log[i].msg) = get_message_type(alerts_log[j].msg)
          /\ alerts_log[j].at - alerts_log[i].at = alert_cooldown
    /\ \E i \in 1..Len(hist.sent) : ~hist.sent[i].accepted

\* C28 (as the code has it): a suppressed send_alert appends nothing to the
\* alerts log, leaves the per-kind times as they were and adds nothing to the
\* fingerprint set.
C28_SuppressedAlertAddsNothing ==
    [][(SendStep /\ ~Sent.accepted) =>
          /\ alerts_log' = alerts_log
          /\ notification'.last_alert_time = notification.last_alert_time
          /\ notification'.message_fingerprints \subseteq notification.message_fingerprints]_vars

\* C28 (as stated): ... and leaves the fingerprint set unchanged.
C28_SuppressedAlertChangesNothing ==
    [][(SendStep /\ ~Sent.accepted) =>
          /\ alerts_log' = alerts_log
          /\ notification'.last_alert_time = notification.last_alert_time
          /\ notification'.message_fingerprints = notification.message_fingerprints]_vars

C28_Witness ==
    /\ hist.sent # <<>>
    /\ ~hist.sent[Len(hist.sent)].accepted
    /\ get_message_type(hist.sent[Len(hist.sent)].msg) \in DOMAIN notification.last_alert_time
    /\ notification.last_alert_time[get_message_type(hist.sent[Len(hist.sent)].msg)] < now

\* C29: a message with the fingerprint of an alert accepted since the last
\* clear is suppressed, whatever the cooldown; the first send_alert more
\* than 24 h after the last clear clears the set and stamps the clear.
C29_DedupUntilDailyClear ==
    [][SendStep =>
          LET due == now - notification.last_cleanup_time > fingerprint_cleanup_interval
              seen == \E i \in 1..Len(alerts_log) :
                         /\ alerts_log[i].at >= notification.last_cleanup_time
                         /\ generate_message_fingerprint(alerts_log[i].msg)
                                = generate_message_fingerprint(Sent.msg)
          IN /\ (~due /\ seen) => ~Sent.accepted
             /\ due => /\ notification'.last_cleanup_time = now
                        /\ notification'.message_fingerprints
                              \subseteq {generate_message_fingerprint(Sent.msg)}
             /\ ~due => notification'.last_cleanup_time = notification.last_cleanup_time]_vars

C29_Witness ==
    /\ \E i, j \in 1..Len(alerts_log) : i < j /\ alerts_log[i].msg = alerts_log[j].msg
    /\ \E i \in 1..Len(hist.sent), j \in 1..Len(alerts_log) :
          /\ ~hist.sent[i].accepted
          /\ hist.sent[i].msg # alerts_log[j].msg
          /\ generate_message_fingerprint(hist.sent[i].msg)
                = generate_message_fingerprint(alerts_log[j].msg)

\* C30: every RECOVERY FAILED alert that a failed restore run submits is
\* accepted by the sink and recorded in the alerts log.
C30_FailedRunIsReported ==
    \A i \in 1..Len(hist.sent) :
        hist.sent[i].msg = FailedMsg =>
            /\ hist.sent[i].accepted
            /\ \E j \in 1..Len(alerts_log) :
                  alerts_log[j].msg = FailedMsg /\ alerts_log[j].run = hist.sent[i].run

\* the event a handler is about to process
Delivered == Head(queue)

\* the step arms a recovery
ArmStep == hist'.arms > hist.arms

\* C31: when a Renamed event has been handled without arming a recovery, the
\* counter holds at least what the rename adds (1 for differing extensions,
\* 2 for a destination extension with encrypted, locked or crypt, 0 for equal
\* extensions), also when the counter window had expired before the event.
C31_RenameContributionKept ==
    [][(HandlerStep /\ Delivered.kind = "renamed" /\ ~ArmStep)
          => extension_changes' >=
                 rename_increment(ExtOf(Delivered.src), ExtOf(Delivered.dest))]_vars

\* C32: a matched pair (delete of X.ext, create of a path starting with X) is
\* counted by one evaluation only: the pairs an evaluation adds to the counter
\* have not been added by an earlier evaluation.
C32_PairCountedOnce ==
    [][HandlerStep => hist'.pairs \cap hist.counted = {}]_vars

\* the created path has the base name X of the deleted path X.ext: it is X
\* itself or X followed by an extension
SameBaseName(deleted, created) ==
    LET X == splitext(Chars(deleted))[1]
    IN \/ Chars(created) = X
       \/ StartsWith(Chars(created), Append(X, "."))

\* C33: every pair counted as a delete-then-create pattern has a created
\* path with the base name of the deleted path, created not before the delete
\* and within W_pat of it.
C33_PatternIsDeleteThenCreate ==
    \A pr \in hist.counted :
        /\ SameBaseName(pr.deleted, pr.created)
        /\ pr.deleted_at <= pr.created_at
        /\ pr.created_at - pr.deleted_at <= pattern_window

\* what the handler itself has added to the counter in a step that neither
\* arms nor meets an expired counter window: the growth of the counter less
\* the pairs the evaluation has counted
HandlerIncrement == extension_changes' - extension_changes - Cardinality(hist'.pairs)

WindowOpen == now - last_extension_reset <= extension_change_window

\* C34: a Created event whose name contains .encrypted adds 1 to the counter
\* exactly when the path without .encrypted is a key of the extension map.
C34_EncryptedCreateCountsKnownPath ==
    [][(/\ HandlerStep /\ Delivered.kind = "created" /\ ~ArmStep /\ WindowOpen
        /\ Contains(Lower(Chars(Delivered.src)), DotEncrypted))
          => LET possible_original == replace_with_empty(Chars(Delivered.src), DotEncrypted)
                 known == \E p \in DOMAIN file_extensions : Chars(p) = possible_original
             IN /\ known => HandlerIncrement = 1
                /\ ~known => HandlerIncrement = 0]_vars

\* the extension map holds, for every key, the extension of that very path
\* (lines 83, 249, 285 and 335 all store splitext of the key)
ExtensionMapIsCurrent ==
    \A p \in DOMAIN file_extensions : file_extensions[p] = ExtOf(p)

\* the file now at path p got there by a rename that changed its extension,
\* and that rename is the last operation recorded
RenamedWithNewExtension(p) ==
    /\ recent_operations # <<>>
    /\ LET last == recent_operations[Len(recent_operations)]
       IN last.op = "renamed" /\ last.dest = p /\ ExtOf(last.path) # ExtOf(p)

\* C35: a Modified event on a file whose extension is no longer the one it
\* was recorded with (the file has just been renamed to another extension)
\* adds 1 to the counter: the increment of the Modified handler is reachable.
C35_ModifiedCountsChangedExtension ==
    [][(/\ HandlerStep /\ Delivered.kind = "modified" /\ ~ArmStep /\ WindowOpen
        /\ RenamedWithNewExtension(Delivered.src))
          => HandlerIncrement = 1]_vars

\* the walk of restore_all_files has restored a file in this step
RestoredInStep(t, f) ==
    /\ f \in thr'[t].done \ thr[t].done
    /\ thr'[t].restored_count > thr[t].restored_count

\* C36: the Deleted handler leaves the shadow tree and the catalog as they
\* are, and a file restored by the walk of restore_all_files, a deleted one
\* included, has the content of its shadow copy afterwards.
C36_DeleteKeepsBackup ==
    [][/\ (HandlerStep /\ Delivered.kind = "deleted")
              => (shadow' = shadow /\ catalog' = catalog)
       /\ \A t \in Threads, f \in AllPaths :
              RestoredInStep(t, f)
                  => (shadow[f] # NoFile /\ live'[f] = shadow[f])]_vars

\* a.txt was deleted, its Deleted event has been handled, and the walk has
\* recreated it from the shadow copy made at start-up
C36_Witness ==
    /\ \E i \in 1..Len(recent_operations) :
           recent_operations[i].op = "deleted" /\ recent_operations[i].path = "a.txt"
    /\ \E j \in 1..Len(queue) :
           queue[j].kind = "created" /\ queue[j].src = "a.txt" /\ queue[j].origin = "restore"
    /\ \E t \in Threads : "a.txt" \in thr[t].done /\ thr[t].restored_count >= 1
    /\ live["a.txt"] = InitialTree["a.txt"]
    /\ shadow["a.txt"] = InitialTree["a.txt"]

\* C37: in every state of the recovery (mode set or clear, walk running or
\* not) the Created handler replaces the shadow copy of a path by the file's
\* live content, the Modified handler leaves the shadow tree as it is; a
\* shadow tree holds one copy per path, so what the walk restores afterwards
\* is the content of the recreated file.
C37_CreatedOverwritesBackup ==
    [][/\ (HandlerStep /\ Delivered.kind = "created" /\ live[Delivered.src] # NoFile)
              => /\ shadow'[Delivered.src] = live[Delivered.src]
                 /\ \A q \in AllPaths \ {Delivered.src} : shadow'[q] = shadow[q]
       /\ (HandlerStep /\ Delivered.kind = "modified") => shadow' = shadow
       /\ \A t \in Threads, f \in AllPaths :
              RestoredInStep(t, f) => live'[f] = shadow[f]]_vars

\* a.txt was deleted and recreated with other content; the Created handler
\* has replaced the start-up copy, the walk has restored the recreated
\* content, and an event has been handled while the recovery mode was set
C37_Witness ==
    /\ \E i, j \in 1..Len(recent_operations) :
           /\ i < j
           /\ recent_operations[i].op = "deleted" /\ recent_operations[i].path = "a.txt"
           /\ recent_operations[j].op = "created" /\ recent_operations[j].path = "a.txt"
    /\ shadow["a.txt"] = "cipher"
    /\ live["a.txt"] = "cipher"
    /\ hist.skipped > 0
    /\ \E t \in Threads : "a.txt" \in thr[t].done /\ thr[t].restored_count >= 1

\* the threads inside restore_all_files
InRestoreAll == ThreadsAt({"ra_check", "ra_set", "ra_walk"})

\* C38: a timer that is pending, a restore_all_files call that is running and
\* a callback that has not reached its finally clause all find the recovery
\* mode set; the mode is cleared only by the finally clause of the timer
\* callback, when no restore_all_files call is running.
C38_RestoreOnlyInRecoveryMode ==
    /\ [](ThreadsAt({"pending", "ra_check", "ra_set", "ra_walk",
                     "rr_complete", "rr_failed", "rr_finally"}) # {} => recovery_mode)
    /\ [][(recovery_mode /\ ~recovery_mode')
             => /\ InRestoreAll = {}
                /\ \E t \in Threads : thr[t].pc = "rr_finally" /\ thr'[t].pc = "idle"]_vars

\* the walk has restored a file and is not over, the mode is set, and an
\* event has been handled meanwhile without an evaluation
C38_Witness ==
    /\ recovery_mode
    /\ hist.skipped > 0
    /\ \E t \in Threads : thr[t].pc = "ra_walk" /\ thr[t].done # {} /\ thr[t].todo # {}

\* the detection alerts the dispatcher has submitted and the sink has suppressed
SuppressedDetections ==
    {i \in 1..Len(hist.sent) : /\ hist.sent[i].by = "dispatcher"
                               /\ hist.sent[i].msg.head = DetectionHead
                               /\ ~hist.sent[i].accepted}

DetectionRecords ==
    {i \in 1..Len(alerts_log) : alerts_log[i].msg.head = DetectionHead}

\* C39: a handler arms a recovery exactly when its verdict is suspicious,
\* AUTO_RECOVERY is enabled and the recovery mode is clear, whether the sink
\* has accepted the detection alert or suppressed it; the timer is then
\* pending for the new run.
C39_ArmingIgnoresSinkAnswer ==
    [][HandlerStep
          => /\ ArmStep <=> (VerdictStep /\ AUTO_RECOVERY /\ ~recovery_mode)
             /\ ArmStep => \E t \in Threads :
                               /\ thr'[t].pc = "pending"
                               /\ thr'[t].run = hist'.arms
                               /\ recovery_mode']_vars

\* a second recovery is armed by a detection whose alert the sink has
\* suppressed: two runs armed, one detection record in the log
C39_Witness ==
    /\ hist.arms = 2
    /\ SuppressedDetections # {}
    /\ Cardinality(DetectionRecords) = 1
    /\ \E t \in Threads : thr[t].pc = "pending" /\ thr[t].run = 2

IsDetection(m) == m.head = DetectionHead

\* the fingerprint of a detection alert depends on the model's verdict only,
\* in the text as in the record the sink is modelled on
FingerprintFollowsVerdict ==
    \A f1, e1, a1, s1, f2, e2 \in NumberTexts, ml1, ml2 \in BOOLEAN :
        LET t1 == alert_text(f1, e1, a1, s1, ml1)
            t2 == alert_text(f2, e2, e1, f1, ml2)
        IN /\ SubSeq(t1, 1, 50) = SubSeq(t2, 1, 50)
           /\ (ml1 = ml2) => SubSeq(t1, Len(t1) - 19, Len(t1)) = SubSeq(t2, Len(t2) - 19, Len(t2))
           /\ (fingerprint_of_text(t1) = fingerprint_of_text(t2)) <=> (ml1 = ml2)
           /\ (generate_message_fingerprint(DetectionMsg(3, 0, ml1))
                  = generate_message_fingerprint(DetectionMsg(4, 1, ml2))) <=> (ml1 = ml2)

\* C40: all detection alerts have the same first 50 characters and, for one
\* verdict of the model, the same last 20; a sink accepts a detection alert
\* only if it has accepted none with the same verdict since the fingerprint
\* set was last cleared, however long ago the earlier one was.
C40_OneDetectionPerVerdictPerPeriod ==
    /\ []FingerprintFollowsVerdict
    /\ [][(SendStep /\ IsDetection(Sent.msg) /\ Sent.accepted)
             => \A i \in 1..Len(alerts_log) :
                   (IsDetection(alerts_log[i].msg) /\ alerts_log[i].msg.tail = Sent.msg.tail)
                       => alerts_log[i].at < notification'.last_cleanup_time]_vars

\* a detection alert with other numbers and the same verdict has been
\* suppressed although the cooldown of its kind had elapsed
C40_Witness ==
    /\ Len(hist.sent) >= 2
    /\ LET last == hist.sent[Len(hist.sent)]
       IN /\ IsDetection(last.msg)
          /\ ~last.accepted
          /\ now - notification.last_alert_time["RANSOMWARE_DETECTION"] >= alert_cooldown
          /\ now - notification.last_cleanup_time <= fingerprint_cleanup_interval
          /\ \E j \in 1..Len(alerts_log) :
                /\ IsDetection(alerts_log[j].msg)
                /\ alerts_log[j].msg # last.msg
                /\ alerts_log[j].msg.tail = last.msg.tail

====
